---- MODULE Spec2Model ----
(***************************************************************************)
(* A model of generate_offline_website.py: the OfflineWebsiteGenerator     *)
(* that loads categories, sections and articles, builds the two lookup     *)
(* mappings and writes the static help-center pages.                       *)
(*                                                                         *)
(* A page is modelled by the data its f-string template interpolates: the  *)
(* fixed markup around the data is the same in every run and is left out.  *)
(* Strings the code only copies are strings here; strings the code orders  *)
(* (titles, updated_at) are modelled so that the order is computed:        *)
(* a title is its sequence of code points, an updated_at timestamp is the  *)
(* pair <<date, time-of-day>> of its first 10 characters and its rest.     *)
(***************************************************************************)
EXTENDS Integers, Sequences, FiniteSets, TLC

\* ------------------------------------------------------------------ bounds
MaxCategories == 2
MaxSections == 2
MaxArticles == 2
\* The longest articles file of the exports that differ in updated_at.
MaxPopularArticles == 7
\* The longest articles file of the exports that differ in title.
MaxIndexArticles == 3
\* The longest input files on which the program is run a second time.
MaxRerunLen == 1
\* The clock readings are 0..MaxClock.
MaxClock == 1
\* The most article cards of a document, and the longest text typed into its
\* search box.
MaxCards == 2
MaxQueryLen == 2
\* The longest articles file of the exports in which articles share an id.
MaxSharedIdArticles == 3

\* ------------------------------------------------------- program constants
\* sorted(...)[:6] in create_homepage
PopularLimit == 6
UNKNOWN == "Unknown"
NoDescription == ""
DefaultIcon == "U+1F4C4"
COPYRIGHT == "(c) 2025 Userology. All rights reserved."
GENERATED == "Offline Help Center - Generated on"

VARIABLES
    \* the three files of the export directory (never written by the program)
    categories_json, sections_json, articles_json,
    \* the local videos directory: <<>> when absent, else <<set of file names>>
    videos_dir,
    \* the output root: the directories made and the files written so far
    dirs, fs,
    \* the generator object of the current run
    categories, sections, articles, sections_by_category, articles_by_section,
    \* the position of the current run, and the loop index of create_all_pages
    pc, idx,
    \* how often the program is still started again, and the last reading of
    \* the clock
    runs_left, now,
    \* the output root as the current run found it, and whether the run before
    \* it ended normally
    atStart,
    \* the document a browser shows after main.js has run on DOMContentLoaded:
    \* its .article-item/.article-card elements, the style.display of each and
    \* the value of #searchInput
    browser

vars == <<categories_json, sections_json, articles_json, videos_dir, dirs, fs,
          categories, sections, articles, sections_by_category,
          articles_by_section, pc, idx, runs_left, now, atStart, browser>>

inputVars == <<categories_json, sections_json, articles_json, videos_dir>>
objectVars == <<categories, sections, articles, sections_by_category,
                articles_by_section>>

\* ------------------------------------------------------------------ helpers
Range(s) == {s[i] : i \in 1..Len(s)}

Min(a, b) == IF a <= b THEN a ELSE b

\* s[:n] of Python
Take(s, n) == SubSeq(s, 1, Min(n, Len(s)))

Reverse(s) == [i \in 1..Len(s) |-> s[Len(s) + 1 - i]]

\* [x for x in s if P(x)]
Filter(s, P(_)) == SelectSeq(s, P)

\* str < str of Python: by code point, a proper prefix first
RECURSIVE StrLess(_, _)
StrLess(a, b) ==
    IF a = <<>> THEN b # <<>>
    ELSE IF b = <<>> THEN FALSE
    ELSE IF Head(a) # Head(b) THEN Head(a) < Head(b)
    ELSE StrLess(Tail(a), Tail(b))

\* the order of two updated_at strings of the form YYYY-MM-DDThh:mm:ssZ
StampLess(a, b) == a[1] < b[1] \/ (a[1] = b[1] /\ a[2] < b[2])

\* updated_at[:10]
DateOf(updated_at) == updated_at[1]

\* str.lower() and String.prototype.toLowerCase() of a text of ASCII letters
Lower(s) == [i \in 1..Len(s) |-> IF s[i] >= 65 /\ s[i] <= 90 THEN s[i] + 32 ELSE s[i]]

\* key=lambda x: x['title'].lower() in place of key=lambda x: x['title']
KeyLessIgnoreCase(field, x, y) ==
    IF field = "title" THEN StrLess(Lower(x.title), Lower(y.title))
    ELSE StampLess(x.updated_at, y.updated_at)

\* key=lambda x: x[field], compared: titles and updated_at strings
KeyLess(field, x, y) ==
    IF field = "title" THEN StrLess(x.title, y.title)
    ELSE StampLess(x.updated_at, y.updated_at)

\* list.sort: stable, each element inserted after the elements not greater
RECURSIVE InsertSorted(_, _, _)
InsertSorted(sorted, x, field) ==
    IF sorted = <<>> THEN <<x>>
    ELSE IF KeyLess(field, x, Head(sorted)) THEN <<x>> \o sorted
    ELSE <<Head(sorted)>> \o InsertSorted(Tail(sorted), x, field)

RECURSIVE StableSort(_, _)
StableSort(s, field) ==
    IF s = <<>> THEN <<>>
    ELSE InsertSorted(StableSort(SubSeq(s, 1, Len(s) - 1), field), s[Len(s)], field)

\* sorted(s, key=lambda x: x[field]): ascending and stable
Sorted(s, field) == StableSort(s, field)

\* sorted(s, key=...)[::-1] or .reverse() in place of reverse=True: equal keys
\* end up in the reverse of their input order
SortedThenReversed(s, field) == Reverse(StableSort(s, field))

\* sorted(s, key=lambda x: x[field], reverse=True): the list is reversed, sorted
\* stably and reversed again, so equal keys keep their input order
SortedReverse(s, field) == Reverse(StableSort(Reverse(s), field))

\* dict.get(key, default)
Get(d, key, default) == IF key \in DOMAIN d THEN d[key] ELSE default

\* d[key] = value
Put(d, key, value) ==
    [k \in DOMAIN d \cup {key} |-> IF k = key THEN value ELSE d[k]]

\* next((x for x in s if P(x)), None), as a position: 0 stands for None
FirstPosition(s, P(_)) ==
    IF \E i \in 1..Len(s) : P(s[i])
    THEN CHOOSE i \in 1..Len(s) : P(s[i]) /\ \A j \in 1..(i - 1) : ~P(s[j])
    ELSE 0

\* ------------------------------------------------------------------- inputs
\* The records of the export: a Category is [id, name, description], a Section
\* [id, name, description, category_id], an Article [id, title, body,
\* section_id, updated_at]. Identifiers and foreign keys are drawn from small
\* sets, so that records share identifiers and foreign keys dangle; the fields
\* the program only copies are fixed by the record's position in its file.
CategoryIds == {1, 2}
SectionIds == {1, 2}

CategoryNames == <<"Getting Started", "Billing", "Account", "Research">>
SectionNames == <<"Launch", "FAQ", "Study Setup", "Glossary">>
\* "b", "A", "a", "B"
ArticleTitles == <<(<<98>>), (<<65>>), (<<97>>), (<<66>>)>>
ArticleStamps == <<(<<2, 0>>), (<<1, 1>>), (<<2, 0>>), (<<1, 0>>)>>

At(names, i) == names[((i - 1) % Len(names)) + 1]

SeqsUpTo(S, n) == UNION {[1..k -> S] : k \in 0..n}

Category(i, id) ==
    [id |-> id, name |-> At(CategoryNames, i), description |-> "category text"]

Section(i, id, category_id) ==
    [id |-> id, name |-> At(SectionNames, i), description |-> "section text",
     category_id |-> category_id]

Article(i, section_id, title, updated_at) ==
    [id |-> i, title |-> title, body |-> "<p>body</p>", section_id |-> section_id,
     updated_at |-> updated_at]

CategoryFiles(n) ==
    {[i \in DOMAIN q |-> Category(i, q[i])] : q \in SeqsUpTo(CategoryIds, n)}

SectionFiles(n) ==
    {[i \in DOMAIN q |-> Section(i, q[i][1], q[i][2])] :
        q \in SeqsUpTo(SectionIds \X CategoryIds, n)}

\* "A", "B", "a", "Ab"
TitleSet == {<<65>>, <<66>>, <<97>>, <<65, 98>>}
StampSet == {<<1, 0>>, <<1, 1>>, <<2, 0>>}

\* articles of one section that differ in updated_at
PopularArticleFiles(n) ==
    {[i \in DOMAIN q |-> Article(i, 1, At(ArticleTitles, i), q[i])] :
        q \in SeqsUpTo(StampSet, n)}

\* articles that differ in title and in section_id
IndexArticleFiles(n) ==
    {[i \in DOMAIN q |-> Article(i, q[i][1], q[i][2], At(ArticleStamps, i))] :
        q \in SeqsUpTo(SectionIds \X TitleSet, n)}

ArticleFiles(n) ==
    {[i \in DOMAIN q |-> Article(i, q[i], At(ArticleTitles, i), At(ArticleStamps, i))] :
        q \in SeqsUpTo(SectionIds, n)}

\* ".mp4"
Mp4 == <<46, 109, 112, 52>>

\* two of the keys of video_descriptions: "AI Transcript.mp4", "QnA results.mp4"
AITranscriptMp4 ==
    <<65, 73, 32, 84, 114, 97, 110, 115, 99, 114, 105, 112, 116>> \o Mp4
QnAResultsMp4 ==
    <<81, 110, 65, 32, 114, 101, 115, 117, 108, 116, 115>> \o Mp4

\* os.path.exists("videos") is false, or the directory holds "AI Transcript.mp4",
\* "A.mp4" and "a.txt"
VideoDirs == {<<>>, <<{AITranscriptMp4, <<65>> \o Mp4, <<97, 46, 116, 120, 116>>}>>}

\* os.path.exists("videos") is false, or the directory holds any of
\* "AI Transcript.mp4", "QnA results.mp4", "A.mp4", "B.MP4", ".mp4" and "a.txt"
AllVideoDirs ==
    {<<>>} \cup
    {<<names>> : names \in SUBSET {AITranscriptMp4, QnAResultsMp4, <<65>> \o Mp4,
                                    <<66, 46, 77, 80, 52>>, Mp4,
                                    <<97, 46, 116, 120, 116>>}}

NoFiles == [p \in {} |-> <<>>]
NotLoaded == <<>>
EmptyDict == [k \in {} |-> <<>>]

\* No document is open.
NoDocument == [cards |-> <<>>, display |-> <<>>, value |-> <<>>]

\* ---------------------------------------------------------------- the state
\* The process is started on an empty output root.
InitWith(cs, ss, as, vs, reruns) ==
    /\ categories_json \in cs
    /\ sections_json \in ss
    /\ articles_json \in as
    /\ videos_dir \in vs
    /\ dirs = {}
    /\ fs = NoFiles
    /\ categories = NotLoaded
    /\ sections = NotLoaded
    /\ articles = NotLoaded
    /\ sections_by_category = EmptyDict
    /\ articles_by_section = EmptyDict
    /\ pc = "load_categories"
    /\ idx = 0
    /\ runs_left = reruns
    /\ now = 0
    /\ atStart = [dirs |-> {}, fs |-> NoFiles, completed |-> FALSE]
    /\ browser = NoDocument

\* The program is run once on every export within the bounds, and twice on
\* every export of files of at most MaxRerunLen records.
InitRerun ==
    InitWith(CategoryFiles(MaxRerunLen), SectionFiles(MaxRerunLen),
             ArticleFiles(MaxRerunLen), VideoDirs, 1)

Init ==
    \/ InitWith(CategoryFiles(MaxCategories), SectionFiles(MaxSections),
                ArticleFiles(MaxArticles), {<<>>}, 0)
    \/ InitRerun

\* Exports of one category, one section and up to MaxPopularArticles articles
\* with any updated_at.
InitPopular ==
    \/ InitWith({<<Category(1, 1)>>}, {<<Section(1, 1, 1)>>},
                PopularArticleFiles(MaxPopularArticles), {<<>>}, 0)
    \/ InitRerun

\* Exports of one category, one section and up to MaxIndexArticles articles
\* with any title, in that section or in none.
InitIndex ==
    \/ InitWith({<<Category(1, 1)>>}, {<<Section(1, 1, 1)>>},
                IndexArticleFiles(MaxIndexArticles), {<<>>}, 0)
    \/ InitRerun

\* ---------------------------------------------------------- the constructor
\* self.categories = self.load_json("categories.json"), and the two after it
LoadJson ==
    /\ pc \in {"load_categories", "load_sections", "load_articles"}
    /\ categories' = IF pc = "load_categories" THEN categories_json ELSE categories
    /\ sections' = IF pc = "load_sections" THEN sections_json ELSE sections
    /\ articles' = IF pc = "load_articles" THEN articles_json ELSE articles
    /\ pc' = CASE pc = "load_categories" -> "load_sections"
               [] pc = "load_sections" -> "load_articles"
               [] OTHER -> "makedirs"
    /\ UNCHANGED <<inputVars, browser, dirs, fs, sections_by_category, articles_by_section,
                   idx, runs_left, now, atStart>>

\* the exception is caught in load_json, the list stays empty and the run goes on
LoadJsonSwallows ==
    /\ pc \in {"load_categories", "load_sections", "load_articles"}
    /\ pc' = CASE pc = "load_categories" -> "load_sections"
               [] pc = "load_sections" -> "load_articles"
               [] OTHER -> "makedirs"
    /\ UNCHANGED <<inputVars, browser, dirs, fs, objectVars, idx, runs_left, now, atStart>>

\* open() or json.load() raises: nothing catches it, the process ends
LoadJsonRaises ==
    /\ pc \in {"load_categories", "load_sections", "load_articles"}
    /\ pc' = "aborted"
    /\ UNCHANGED <<inputVars, browser, dirs, fs, objectVars, idx, runs_left, now, atStart>>

OutputDirs == {"", "css", "js", "sections", "articles", "categories"}

\* the six os.makedirs(..., exist_ok=True)
MakeDirs ==
    /\ pc = "makedirs"
    /\ dirs' = dirs \cup OutputDirs
    /\ pc' = "index_sections"
    /\ UNCHANGED <<inputVars, browser, fs, objectVars, idx, runs_left, now, atStart>>

\* self.sections_by_category[cat_id].insert(0, section) in place of append
SectionStepPrepends(before, section) ==
    LET cat_id == section.category_id
        listed == IF cat_id \notin DOMAIN before.sections_by_category
                  THEN Put(before.sections_by_category, cat_id, <<>>)
                  ELSE before.sections_by_category
    IN [sections_by_category |-> Put(listed, cat_id, <<section>> \o listed[cat_id]),
        articles_by_section |-> Put(before.articles_by_section, section.id, <<>>)]

\* self.sections_by_category[cat_id] = [section] for every section
SectionStepResets(before, section) ==
    [sections_by_category |->
        Put(before.sections_by_category, section.category_id, <<section>>),
     articles_by_section |-> Put(before.articles_by_section, section.id, <<>>)]

\* a section is put into sections_by_category only if its category_id is the id
\* of a loaded category
SectionStepSkipsUnknownCategory(before, section) ==
    LET cat_id == section.category_id
        known == \E i \in 1..Len(categories) : categories[i].id = cat_id
        listed == IF cat_id \notin DOMAIN before.sections_by_category
                  THEN Put(before.sections_by_category, cat_id, <<>>)
                  ELSE before.sections_by_category
    IN [sections_by_category |->
            IF known THEN Put(listed, cat_id, Append(listed[cat_id], section))
            ELSE before.sections_by_category,
        articles_by_section |-> Put(before.articles_by_section, section.id, <<>>)]

\* the body of "for section in self.sections": the two dicts after it
SectionStep(before, section) ==
    LET cat_id == section.category_id
        listed == IF cat_id \notin DOMAIN before.sections_by_category
                  THEN Put(before.sections_by_category, cat_id, <<>>)
                  ELSE before.sections_by_category
    IN [sections_by_category |-> Put(listed, cat_id, Append(listed[cat_id], section)),
        articles_by_section |-> Put(before.articles_by_section, section.id, <<>>)]

\* the two dicts after the first i sections
RECURSIVE SectionLoop(_)
SectionLoop(i) ==
    IF i = 0
    THEN [sections_by_category |-> EmptyDict, articles_by_section |-> EmptyDict]
    ELSE SectionStep(SectionLoop(i - 1), sections[i])

IndexSections ==
    /\ pc = "index_sections"
    /\ sections_by_category' = SectionLoop(Len(sections)).sections_by_category
    /\ articles_by_section' = SectionLoop(Len(sections)).articles_by_section
    /\ pc' = "index_articles"
    /\ UNCHANGED <<inputVars, browser, dirs, fs, categories, sections, articles, idx,
                   runs_left, now, atStart>>

\* self.articles_by_section[section_id].insert(0, article) in place of append
ArticleStepPrepends(before, article) ==
    LET section_id == article.section_id
    IN IF section_id \in DOMAIN before
       THEN Put(before, section_id, <<article>> \o before[section_id])
       ELSE before

\* the body of "for article in self.articles": articles_by_section after it
ArticleStep(before, article) ==
    LET section_id == article.section_id
    IN IF section_id \in DOMAIN before
       THEN Put(before, section_id, Append(before[section_id], article))
       ELSE before

\* articles_by_section after the first i articles
RECURSIVE ArticleLoop(_)
ArticleLoop(i) ==
    IF i = 0 THEN articles_by_section
    ELSE ArticleStep(ArticleLoop(i - 1), articles[i])

\* the loop over self.articles stands behind create_all_pages
IndexArticlesAfterPages ==
    /\ pc = "index_articles"
    /\ pc' = "create_css"
    /\ UNCHANGED <<inputVars, browser, dirs, fs, objectVars, idx, runs_left, now, atStart>>

IndexArticles ==
    /\ pc = "index_articles"
    /\ articles_by_section' = ArticleLoop(Len(articles))
    /\ pc' = "create_css"
    /\ UNCHANGED <<inputVars, browser, dirs, fs, categories, sections, articles,
                   sections_by_category, idx, runs_left, now, atStart>>

\* ---------------------------------------------------------------- the pages
\* open(path, 'a') in place of open(path, 'w'): an existing file is added to
WriteFileAppends(path, content) ==
    fs' = Put(fs, path, IF path \in DOMAIN fs THEN <<fs[path], content>> ELSE content)

\* open(path, 'x') in place of open(path, 'w'): an existing file is left as it is
WriteFileKeepsExisting(path, content) ==
    fs' = IF path \in DOMAIN fs THEN fs ELSE Put(fs, path, content)

\* open(path, 'w').write(content): the whole file is replaced
WriteFile(path, content) == fs' = Put(fs, path, content)

CssPath == <<"css", "style.css", 0>>
JsPath == <<"js", "main.js", 0>>
IndexPath == <<"", "index.html", 0>>
CategoriesIndexPath == <<"", "categories.html", 0>>
ArticlesIndexPath == <<"", "articles.html", 0>>
VideosPath == <<"", "videos.html", 0>>
\* f"{self.output_dir}/sections/section_{category['id']}.html", pasted from
\* create_section_page
CategoryPathInSections(id) == <<"sections", "section", id>>

CategoryPath(id) == <<"categories", "category", id>>
SectionPath(id) == <<"sections", "section", id>>
ArticlePath(id) == <<"articles", "article", id>>

\* href="{prefix}{path}"
Href(prefix, path) == <<prefix>> \o path

\* is_root is not looked at
PathPrefixOfRoot(is_root) == ""

PathPrefix(is_root) == IF is_root THEN "" ELSE "../"

get_header_html(title, description, is_root, include_search) ==
    [title |-> title,
     description |-> description,
     stylesheet |-> Href(PathPrefix(is_root), CssPath),
     logo |-> <<PathPrefix(is_root), "logo.png">>,
     search |-> include_search,
     nav |-> <<Href(PathPrefix(is_root), IndexPath),
               Href(PathPrefix(is_root), CategoriesIndexPath),
               Href(PathPrefix(is_root), ArticlesIndexPath),
               Href(PathPrefix(is_root), VideosPath)>>]

get_footer_html(is_root, include_script) ==
    [text |-> COPYRIGHT,
     stamp |-> <<>>,
     script |-> IF include_script THEN <<Href(PathPrefix(is_root), JsPath)>> ELSE <<>>]

\* the footer written out in create_homepage, create_section_page and
\* create_article_page
InlineFooter == [text |-> COPYRIGHT, stamp |-> <<>>, script |-> <<>>]

\* self.create_css()
CreateCss ==
    /\ pc = "create_css"
    /\ WriteFile(CssPath, [text |-> "css_content"])
    /\ pc' = "create_javascript"
    /\ UNCHANGED <<inputVars, browser, dirs, objectVars, idx, runs_left, now, atStart>>

\* self.create_javascript()
CreateJavascript ==
    /\ pc = "create_javascript"
    /\ WriteFile(JsPath, [text |-> "js_content"])
    /\ pc' = "create_homepage"
    /\ UNCHANGED <<inputVars, browser, dirs, objectVars, idx, runs_left, now, atStart>>

section_icons ==
    [name \in {"Study Setup", "Interview Plan", "Study Settings", "Launch",
               "Responses and Recordings", "Settings and Admin",
               "Results and Reports"} |->
        CASE name = "Study Setup" -> "U+1F4DD"
          [] name = "Interview Plan" -> "U+1F4AC"
          [] name = "Study Settings" -> "U+2699"
          [] name = "Launch" -> "U+1F680"
          [] name = "Responses and Recordings" -> "U+1F3A5"
          [] name = "Settings and Admin" -> "U+1F465"
          [] OTHER -> "U+1F4CA"]

section_descriptions ==
    [name \in DOMAIN section_icons |->
        CASE name = "Study Setup" ->
                "Learn how to create and configure your research studies"
          [] name = "Interview Plan" ->
                "Set up discussion guides and interview sections"
          [] name = "Study Settings" ->
                "Configure AI moderator, devices, permissions, and more"
          [] name = "Launch" -> "Recruit participants and preview your study"
          [] name = "Responses and Recordings" ->
                "Manage recordings, clips, and participant responses"
          [] name = "Settings and Admin" ->
                "Manage your team and organization settings"
          [] OTHER -> "Analyze qualitative and quantitative research data"]

\* the topic card of create_homepage
HomepageTopicCard(section) ==
    LET articles_count == Len(Get(articles_by_section, section.id, <<>>))
    IN [href |-> Href("", SectionPath(section.id)),
        icon |-> Get(section_icons, section.name, DefaultIcon),
        name |-> section.name,
        description |-> Get(section_descriptions, section.name, section.description),
        count |-> articles_count,
        label |-> IF articles_count = 1 THEN "article" ELSE "articles"]

\* next((s for s in self.sections if s['id'] == section_id), None)
SectionOf(section_id) ==
    LET Matches(s) == s.id = section_id
    IN FirstPosition(sections, Matches)

\* c['id'] == section['id'] in place of c['id'] == section['category_id']
CategoryOfSectionId(section_pos) ==
    LET Matches(c) == c.id = sections[section_pos].id
    IN IF section_pos = 0 THEN 0 ELSE FirstPosition(categories, Matches)

\* next((c for c in self.categories if c['id'] == section['category_id']), None)
\* if section else None
CategoryOf(section_pos) ==
    LET Matches(c) == c.id = sections[section_pos].category_id
    IN IF section_pos = 0 THEN 0 ELSE FirstPosition(categories, Matches)

SectionName(section_pos) ==
    IF section_pos # 0 THEN sections[section_pos].name ELSE UNKNOWN

CategoryName(category_pos) ==
    IF category_pos # 0 THEN categories[category_pos].name ELSE UNKNOWN

\* sorted(self.articles, key=lambda x: x['updated_at'], reverse=True)[:6]
recent_articles == Take(SortedReverse(articles, "updated_at"), PopularLimit)

HomepagePopularCard(article) ==
    [href |-> Href("", ArticlePath(article.id)),
     title |-> article.title,
     meta |-> SectionName(SectionOf(article.section_id))]

HomepageHtml ==
    LET recent == recent_articles
    IN [header |-> get_header_html("Home", "Get help with Userology", TRUE, TRUE),
        topics |-> [i \in 1..Len(sections) |-> HomepageTopicCard(sections[i])],
        popular |-> [i \in 1..Len(recent) |-> HomepagePopularCard(recent[i])],
        footer |-> InlineFooter]

\* the loops of create_all_pages: a loop over an empty list is passed over
EnterArticlePages ==
    IF Len(articles) > 0 THEN "article_pages" ELSE "create_categories_index"

EnterSectionPages ==
    IF Len(sections) > 0 THEN "section_pages" ELSE EnterArticlePages

EnterCategoryPages ==
    IF Len(categories) > 0 THEN "category_pages" ELSE EnterSectionPages

\* self.articles.sort(key=lambda x: x['updated_at'], reverse=True) in place of
\* sorted(self.articles, ...): the list of the object is put in order
CreateHomepageSortsInPlace ==
    /\ pc = "create_homepage"
    /\ WriteFile(IndexPath, HomepageHtml)
    /\ articles' = SortedReverse(articles, "updated_at")
    /\ pc' = EnterCategoryPages
    /\ idx' = 0
    /\ UNCHANGED <<inputVars, browser, dirs, categories, sections,
                   sections_by_category, articles_by_section, runs_left, now, atStart>>

\* self.create_homepage()
CreateHomepage ==
    /\ pc = "create_homepage"
    /\ WriteFile(IndexPath, HomepageHtml)
    /\ pc' = EnterCategoryPages
    /\ idx' = 0
    /\ UNCHANGED <<inputVars, browser, dirs, objectVars, runs_left, now, atStart>>

\* sections = self.sections in place of the lookup in sections_by_category
CategoryPageHtmlAllSections(category) ==
    [header |-> get_header_html(category.name,
                    "Browse help topics organized by category", FALSE, TRUE),
     sidebar |-> [i \in 1..Len(sections) |->
                    [href |-> Href("../", SectionPath(sections[i].id)),
                     name |-> sections[i].name]],
     name |-> category.name,
     description |-> category.description,
     rows |-> [i \in 1..Len(sections) |->
                [href |-> Href("../", SectionPath(sections[i].id)),
                 name |-> sections[i].name,
                 count |-> Len(Get(articles_by_section, sections[i].id, <<>>))]],
     footer |-> get_footer_html(FALSE, FALSE)]

CategoryPageHtml(category) ==
    LET listed == Get(sections_by_category, category.id, <<>>)
    IN [header |-> get_header_html(category.name,
                        "Browse help topics organized by category", FALSE, TRUE),
        sidebar |-> [i \in 1..Len(listed) |->
                        [href |-> Href("../", SectionPath(listed[i].id)),
                         name |-> listed[i].name]],
        name |-> category.name,
        description |-> category.description,
        rows |-> [i \in 1..Len(listed) |->
                    [href |-> Href("../", SectionPath(listed[i].id)),
                     name |-> listed[i].name,
                     count |-> Len(Get(articles_by_section, listed[i].id, <<>>))]],
        footer |-> get_footer_html(FALSE, FALSE)]

\* self.create_category_page(category), for the next category of the loop
CreateCategoryPage ==
    /\ pc = "category_pages"
    /\ LET category == categories[idx + 1]
       IN WriteFile(CategoryPath(category.id), CategoryPageHtml(category))
    /\ IF idx + 1 < Len(categories)
       THEN pc' = pc /\ idx' = idx + 1
       ELSE pc' = EnterSectionPages /\ idx' = 0
    /\ UNCHANGED <<inputVars, browser, dirs, objectVars, runs_left, now, atStart>>

\* articles = self.articles in place of the lookup in articles_by_section
SectionPageHtmlAllArticles(section) ==
    LET listed == articles
    IN [header |-> get_header_html(section.name,
                        "Your complete guide to using Userology", FALSE, FALSE),
        sidebar |-> [i \in 1..Len(listed) |->
                        [href |-> Href("../", ArticlePath(listed[i].id)),
                         title |-> listed[i].title]],
        name |-> section.name,
        rows |-> [i \in 1..Len(listed) |->
                    [href |-> Href("../", ArticlePath(listed[i].id)),
                     title |-> listed[i].title,
                     updated |-> DateOf(listed[i].updated_at)]],
        footer |-> InlineFooter]

SectionPageHtml(section) ==
    LET listed == Get(articles_by_section, section.id, <<>>)
    IN [header |-> get_header_html(section.name,
                        "Your complete guide to using Userology", FALSE, FALSE),
        sidebar |-> [i \in 1..Len(listed) |->
                        [href |-> Href("../", ArticlePath(listed[i].id)),
                         title |-> listed[i].title]],
        name |-> section.name,
        rows |-> [i \in 1..Len(listed) |->
                    [href |-> Href("../", ArticlePath(listed[i].id)),
                     title |-> listed[i].title,
                     updated |-> DateOf(listed[i].updated_at)]],
        footer |-> InlineFooter]

\* self.create_section_page(section), for the next section of the loop
CreateSectionPage ==
    /\ pc = "section_pages"
    /\ LET section == sections[idx + 1]
       IN WriteFile(SectionPath(section.id), SectionPageHtml(section))
    /\ IF idx + 1 < Len(sections)
       THEN pc' = pc /\ idx' = idx + 1
       ELSE pc' = EnterArticlePages /\ idx' = 0
    /\ UNCHANGED <<inputVars, browser, dirs, objectVars, runs_left, now, atStart>>

ArticlePageHtml(article) ==
    LET section == SectionOf(article.section_id)
        category == CategoryOf(section)
    IN [header |-> get_header_html(article.title,
                        "Your complete guide to using Userology", FALSE, FALSE),
        sidebar |->
            <<[href |-> Href("../", IndexPath), name |-> "Back to Home"]>>
            \o (IF category # 0
                THEN <<[href |-> Href("../", CategoryPath(categories[category].id)),
                        name |-> categories[category].name]>>
                ELSE <<>>)
            \o (IF section # 0
                THEN <<[href |-> Href("../", SectionPath(sections[section].id)),
                        name |-> sections[section].name]>>
                ELSE <<>>),
        title |-> article.title,
        category |-> CategoryName(category),
        section |-> SectionName(section),
        updated |-> DateOf(article.updated_at),
        body |-> article.body,
        footer |-> InlineFooter]

\* for article in reversed(self.articles): self.create_article_page(article)
CreateArticlePageReversed ==
    /\ pc = "article_pages"
    /\ LET article == articles[Len(articles) - idx]
       IN WriteFile(ArticlePath(article.id), ArticlePageHtml(article))
    /\ IF idx + 1 < Len(articles)
       THEN pc' = pc /\ idx' = idx + 1
       ELSE pc' = "create_categories_index" /\ idx' = 0
    /\ UNCHANGED <<inputVars, browser, dirs, objectVars, runs_left, now, atStart>>

\* self.create_article_page(article), for the next article of the loop
CreateArticlePage ==
    /\ pc = "article_pages"
    /\ LET article == articles[idx + 1]
       IN WriteFile(ArticlePath(article.id), ArticlePageHtml(article))
    /\ IF idx + 1 < Len(articles)
       THEN pc' = pc /\ idx' = idx + 1
       ELSE pc' = "create_categories_index" /\ idx' = 0
    /\ UNCHANGED <<inputVars, browser, dirs, objectVars, runs_left, now, atStart>>

\* the topic card with f"{articles_count} articles" for every count
CategoriesIndexTopicCardPlural(section) ==
    LET articles_count == Len(Get(articles_by_section, section.id, <<>>))
    IN [href |-> Href("", SectionPath(section.id)),
        icon |-> Get(section_icons, section.name, DefaultIcon),
        name |-> section.name,
        description |-> Get(section_descriptions, section.name, section.description),
        count |-> articles_count,
        label |-> "articles"]

\* the topic card of create_categories_index
CategoriesIndexTopicCard(section) ==
    LET articles_count == Len(Get(articles_by_section, section.id, <<>>))
    IN [href |-> Href("", SectionPath(section.id)),
        icon |-> Get(section_icons, section.name, DefaultIcon),
        name |-> section.name,
        description |-> Get(section_descriptions, section.name, section.description),
        count |-> articles_count,
        label |-> IF articles_count = 1 THEN "article" ELSE "articles"]

CategoriesIndexHtml ==
    [header |-> get_header_html("Browse Topics",
                    "Browse help topics organized by category", TRUE, TRUE),
     topics |-> [i \in 1..Len(sections) |-> CategoriesIndexTopicCard(sections[i])],
     footer |-> get_footer_html(TRUE, TRUE)]

\* self.create_categories_index()
CreateCategoriesIndex ==
    /\ pc = "create_categories_index"
    /\ WriteFile(CategoriesIndexPath, CategoriesIndexHtml)
    /\ pc' = "create_articles_index"
    /\ UNCHANGED <<inputVars, browser, dirs, objectVars, idx, runs_left, now, atStart>>

ArticlesIndexCard(article) ==
    LET section == SectionOf(article.section_id)
        category == CategoryOf(section)
    IN [href |-> Href("", ArticlePath(article.id)),
        title |-> article.title,
        category |-> CategoryName(category),
        section |-> SectionName(section)]

\* only the articles whose section is loaded are sorted
articles_by_title_resolved ==
    LET Resolved(a) == \E i \in 1..Len(sections) : sections[i].id = a.section_id
    IN Sorted(Filter(articles, Resolved), "title")

\* sorted(self.articles, key=lambda x: x['title'])
articles_by_title == Sorted(articles, "title")

\* time is datetime.now().strftime('%Y-%m-%d %H:%M:%S')
ArticlesIndexHtml(time) ==
    LET sorted == articles_by_title
    IN [header |-> get_header_html("All Articles", "Browse all help articles",
                        TRUE, TRUE),
        cards |-> [i \in 1..Len(sorted) |-> ArticlesIndexCard(sorted[i])],
        footer |-> [text |-> GENERATED, stamp |-> <<time>>, script |-> <<>>]]

\* self.create_articles_index(): the clock is read, and it never runs backwards
CreateArticlesIndex ==
    /\ pc = "create_articles_index"
    /\ \E time \in now..MaxClock :
        /\ now' = time
        /\ WriteFile(ArticlesIndexPath, ArticlesIndexHtml(time))
    /\ pc' = "create_videos_page"
    /\ UNCHANGED <<inputVars, browser, dirs, objectVars, idx, runs_left, atStart>>

\* f.lower().endswith('.mp4')
EndsWithMp4AnyCase(f) ==
    Len(f) >= Len(Mp4) /\ Lower(SubSeq(f, Len(f) - Len(Mp4) + 1, Len(f))) = Mp4

\* f.endswith('.mp4')
EndsWithMp4(f) == Len(f) >= Len(Mp4) /\ SubSeq(f, Len(f) - Len(Mp4) + 1, Len(f)) = Mp4

\* os.path.splitext(video_file)[0] of a name that ends with .mp4: the name
\* without .mp4, or the whole name when only dots are in front of that dot
Stem(f) ==
    LET root == SubSeq(f, 1, Len(f) - Len(Mp4))
    IN IF \A i \in 1..Len(root) : root[i] = 46 THEN f ELSE root

\* the items of video_descriptions, each <<file name, description>>
VideoDescriptionItems ==
    <<
      \* "Creating your study on Userology.mp4"
      <<<<67, 114, 101, 97, 116, 105, 110, 103, 32, 121, 111, 117, 114, 32, 115, 116,
          117, 100, 121, 32, 111, 110, 32, 85, 115, 101, 114, 111, 108, 111, 103,
          121>> \o Mp4,
        "Learn how to create and set up a new study on the Userology platform.">>,
      \* "AI Discussion Guides.mp4"
      <<<<65, 73, 32, 68, 105, 115, 99, 117, 115, 115, 105, 111, 110, 32, 71, 117,
          105, 100, 101, 115>> \o Mp4,
        "Understand how AI-powered discussion guides enhance your usability testing.">>,
      \* "AI Moderator Configuration.mp4"
      <<<<65, 73, 32, 77, 111, 100, 101, 114, 97, 116, 111, 114, 32, 67, 111, 110,
          102, 105, 103, 117, 114, 97, 116, 105, 111, 110>> \o Mp4,
        "Configure the AI moderator settings for your research sessions.">>,
      \* "AI Transcript.mp4"
      <<<<65, 73, 32, 84, 114, 97, 110, 115, 99, 114, 105, 112, 116>> \o Mp4,
        "Learn how to access and utilize AI-generated transcripts from your sessions.">>,
      \* "Ask AI Feature.mp4"
      <<<<65, 115, 107, 32, 65, 73, 32, 70, 101, 97, 116, 117, 114, 101>> \o Mp4,
        "Discover how to use the Ask AI feature to get insights from your research data.">>,
      \* "Configuring Devices and Browsers.mp4"
      <<<<67, 111, 110, 102, 105, 103, 117, 114, 105, 110, 103, 32, 68, 101, 118,
          105, 99, 101, 115, 32, 97, 110, 100, 32, 66, 114, 111, 119, 115, 101, 114,
          115>> \o Mp4,
        "Set up device and browser requirements for your study participants.">>,
      \* "Downloading and Creating Clips.mp4"
      <<<<68, 111, 119, 110, 108, 111, 97, 100, 105, 110, 103, 32, 97, 110, 100, 32,
          67, 114, 101, 97, 116, 105, 110, 103, 32, 67, 108, 105, 112, 115>> \o Mp4,
        "Learn how to download recordings and create clips from your research sessions.">>,
      \* "Duplicating a study on userology.mp4"
      <<<<68, 117, 112, 108, 105, 99, 97, 116, 105, 110, 103, 32, 97, 32, 115, 116,
          117, 100, 121, 32, 111, 110, 32, 117, 115, 101, 114, 111, 108, 111, 103,
          121>> \o Mp4,
        "Quickly duplicate an existing study to save time on setup.">>,
      \* "External Recruitment.mp4"
      <<<<69, 120, 116, 101, 114, 110, 97, 108, 32, 82, 101, 99, 114, 117, 105, 116,
          109, 101, 110, 116>> \o Mp4,
        "Learn how to recruit participants from external sources for your studies.">>,
      \* "Launching Your Study and Recruiting Participants.mp4"
      <<<<76, 97, 117, 110, 99, 104, 105, 110, 103, 32, 89, 111, 117, 114, 32, 83,
          116, 117, 100, 121, 32, 97, 110, 100, 32, 82, 101, 99, 114, 117, 105, 116,
          105, 110, 103, 32, 80, 97, 114, 116, 105, 99, 105, 112, 97, 110, 116,
          115>> \o Mp4,
        "Complete guide to launching your study and recruiting participants.">>,
      \* "Live Product Section.mp4"
      <<<<76, 105, 118, 101, 32, 80, 114, 111, 100, 117, 99, 116, 32, 83, 101, 99,
          116, 105, 111, 110>> \o Mp4,
        "Set up and configure the live product testing section in your study.">>,
      \* "Managing Team and Inviting Members.mp4"
      <<<<77, 97, 110, 97, 103, 105, 110, 103, 32, 84, 101, 97, 109, 32, 97, 110,
          100, 32, 73, 110, 118, 105, 116, 105, 110, 103, 32, 77, 101, 109, 98, 101,
          114, 115>> \o Mp4,
        "Add and manage team members in your Userology organization.">>,
      \* "Organization settings.mp4"
      <<<<79, 114, 103, 97, 110, 105, 122, 97, 116, 105, 111, 110, 32, 115, 101, 116,
          116, 105, 110, 103, 115>> \o Mp4,
        "Configure your organization settings and preferences.">>,
      \* "Personalizing Your Study.mp4"
      <<<<80, 101, 114, 115, 111, 110, 97, 108, 105, 122, 105, 110, 103, 32, 89, 111,
          117, 114, 32, 83, 116, 117, 100, 121>> \o Mp4,
        "Customize your study with branding and personalization options.">>,
      \* "Preview Session.mp4"
      <<<<80, 114, 101, 118, 105, 101, 119, 32, 83, 101, 115, 115, 105, 111,
          110>> \o Mp4,
        "Preview how your study will appear to participants before launching.">>,
      \* "Prototype Section.mp4"
      <<<<80, 114, 111, 116, 111, 116, 121, 112, 101, 32, 83, 101, 99, 116, 105, 111,
          110>> \o Mp4,
        "Set up prototype testing sections for your design research.">>,
      \* "QnA results.mp4"
      <<<<81, 110, 65, 32, 114, 101, 115, 117, 108, 116, 115>> \o Mp4,
        "Analyze and interpret Q&A results from your research sessions.">>,
      \* "Recording permission settings.mp4"
      <<<<82, 101, 99, 111, 114, 100, 105, 110, 103, 32, 112, 101, 114, 109, 105,
          115, 115, 105, 111, 110, 32, 115, 101, 116, 116, 105, 110, 103, 115>> \o Mp4,
        "Configure recording permissions and privacy settings for your studies.">>,
      \* "Recordings page.mp4"
      <<<<82, 101, 99, 111, 114, 100, 105, 110, 103, 115, 32, 112, 97, 103,
          101>> \o Mp4,
        "Navigate and manage all your session recordings in one place.">>,
      \* "Recruit Participant Yourself.mp4"
      <<<<82, 101, 99, 114, 117, 105, 116, 32, 80, 97, 114, 116, 105, 99, 105, 112,
          97, 110, 116, 32, 89, 111, 117, 114, 115, 101, 108, 102>> \o Mp4,
        "Learn how to recruit and invite your own participants to studies.">>,
      \* "Sign In Feature.mp4"
      <<<<83, 105, 103, 110, 32, 73, 110, 32, 70, 101, 97, 116, 117, 114, 101>> \o Mp4,
        "Set up sign-in requirements for your study participants.">>,
      \* "Time estimation feature.mp4"
      <<<<84, 105, 109, 101, 32, 101, 115, 116, 105, 109, 97, 116, 105, 111, 110, 32,
          102, 101, 97, 116, 117, 114, 101>> \o Mp4,
        "Use the time estimation feature to plan your study duration.">>,
      \* "Types of responses .mp4"
      <<<<84, 121, 112, 101, 115, 32, 111, 102, 32, 114, 101, 115, 112, 111, 110,
          115, 101, 115, 32>> \o Mp4,
        "Understand the different types of responses you can collect in your studies.">>,
      \* "Understanding Quantitative Results .mp4"
      <<<<85, 110, 100, 101, 114, 115, 116, 97, 110, 100, 105, 110, 103, 32, 81, 117,
          97, 110, 116, 105, 116, 97, 116, 105, 118, 101, 32, 82, 101, 115, 117, 108,
          116, 115, 32>> \o Mp4,
        "Learn how to analyze and interpret quantitative data from your research.">>,
      \* "Uploading a Legal Document to Your Study.mp4"
      <<<<85, 112, 108, 111, 97, 100, 105, 110, 103, 32, 97, 32, 76, 101, 103, 97,
          108, 32, 68, 111, 99, 117, 109, 101, 110, 116, 32, 116, 111, 32, 89, 111,
          117, 114, 32, 83, 116, 117, 100, 121>> \o Mp4,
        "Add consent forms and legal documents to your study setup.">>,
      \* "Usability score.mp4"
      <<<<85, 115, 97, 98, 105, 108, 105, 116, 121, 32, 115, 99, 111, 114, 101>> \o Mp4,
        "Understand and interpret usability scores from your testing sessions.">>,
      \* "Voice Interview Section.mp4"
      <<<<86, 111, 105, 99, 101, 32, 73, 110, 116, 101, 114, 118, 105, 101, 119, 32,
          83, 101, 99, 116, 105, 111, 110>> \o Mp4,
        "Set up and conduct voice interviews as part of your research studies.">>
    >>

video_descriptions ==
    LET items == VideoDescriptionItems
    IN [f \in {items[i][1] : i \in DOMAIN items} |->
            LET i == CHOOSE i \in DOMAIN items : items[i][1] = f IN items[i][2]]

\* sorted(video_files): the names in ascending order
RECURSIVE SortedNames(_)
SortedNames(names) ==
    IF names = {} THEN <<>>
    ELSE LET first == CHOOSE f \in names : \A g \in names \ {f} : StrLess(f, g)
         IN <<first>> \o SortedNames(names \ {first})

videos ==
    IF videos_dir = <<>> THEN <<>>
    ELSE LET video_files == SortedNames({f \in videos_dir[1] : EndsWithMp4(f)})
         IN [i \in 1..Len(video_files) |->
                [filename |-> video_files[i],
                 title |-> Stem(video_files[i]),
                 description |-> Get(video_descriptions, video_files[i], NoDescription)]]

VideosHtml ==
    [header |-> get_header_html("Video Tutorials",
                    "Watch video tutorials to learn how to use Userology", TRUE, TRUE),
     cards |-> videos,
     footer |-> get_footer_html(TRUE, TRUE)]

\* self.create_videos_page(): the last step of create_all_pages
CreateVideosPage ==
    /\ pc = "create_videos_page"
    /\ WriteFile(VideosPath, VideosHtml)
    /\ pc' = "done"
    /\ UNCHANGED <<inputVars, browser, dirs, objectVars, idx, runs_left, now, atStart>>

\* The file that the step the run is at opens for writing.
OpenedPath ==
    CASE pc = "create_css" -> <<CssPath>>
      [] pc = "create_javascript" -> <<JsPath>>
      [] pc = "create_homepage" -> <<IndexPath>>
      [] pc = "category_pages" -> <<CategoryPath(categories[idx + 1].id)>>
      [] pc = "section_pages" -> <<SectionPath(sections[idx + 1].id)>>
      [] pc = "article_pages" -> <<ArticlePath(articles[idx + 1].id)>>
      [] pc = "create_categories_index" -> <<CategoriesIndexPath>>
      [] pc = "create_articles_index" -> <<ArticlesIndexPath>>
      [] pc = "create_videos_page" -> <<VideosPath>>
      [] OTHER -> <<>>

\* What open(path, 'w') and a write that did not end leave in a file.
PartlyWritten == [partly_written |-> TRUE]

\* The process is killed: between two steps, or in a step that writes a file
\* after the file is opened and before it is closed.
Interrupt ==
    /\ pc \notin {"done", "aborted", "interrupted"}
    /\ \E in_write \in {w \in BOOLEAN : w => OpenedPath # <<>>} :
            fs' = IF in_write THEN Put(fs, OpenedPath[1], PartlyWritten) ELSE fs
    /\ categories' = NotLoaded
    /\ sections' = NotLoaded
    /\ articles' = NotLoaded
    /\ sections_by_category' = EmptyDict
    /\ articles_by_section' = EmptyDict
    /\ pc' = "interrupted"
    /\ idx' = 0
    /\ UNCHANGED <<inputVars, browser, dirs, runs_left, now, atStart>>

\* The process has ended, normally, by the exception of a load or killed, and
\* the program is started again on the same export and the same output root.
RunAgain ==
    /\ pc \in {"done", "aborted", "interrupted"}
    /\ runs_left > 0
    /\ runs_left' = runs_left - 1
    /\ atStart' = [dirs |-> dirs, fs |-> fs, completed |-> pc = "done"]
    /\ categories' = NotLoaded
    /\ sections' = NotLoaded
    /\ articles' = NotLoaded
    /\ sections_by_category' = EmptyDict
    /\ articles_by_section' = EmptyDict
    /\ pc' = "load_categories"
    /\ idx' = 0
    /\ UNCHANGED <<inputVars, browser, dirs, fs, now>>

\* ------------------------------------------------- js/main.js in a browser
\* The texts of the elements of a card and the texts typed: "Ab", "bA", "bb"
\* and every text of at most MaxQueryLen of the letters A and b.
SearchLetters == {65, 98}
Queries == UNION {[1..n -> SearchLetters] : n \in 0..MaxQueryLen}

\* An element that querySelector does not find is <<>>, one it finds is
\* <<its textContent>>.
ArticleCards ==
    [title : {<<>>, <<(<<65, 98>>)>>},
     meta : {<<>>, <<(<<98, 65>>)>>},
     excerpt : {<<>>, <<(<<98, 98>>)>>}]

\* The documents of at most MaxCards cards, as loaded: no style.display is set
\* and the search box is empty.
Documents ==
    UNION {{[cards |-> cards, display |-> [k \in 1..n |-> ""], value |-> <<>>] :
                cards \in [1..n -> ArticleCards]} : n \in 0..MaxCards}

\* String.prototype.includes
includes(text, query) ==
    \E i \in 0..(Len(text) - Len(query)) : SubSeq(text, i + 1, i + Len(query)) = query

\* element ? element.textContent : '', compared as it is written
textContentAsWritten(element) == IF element = <<>> THEN <<>> ELSE element[1]

\* element ? element.textContent.toLowerCase() : ''
textContentLower(element) == IF element = <<>> THEN <<>> ELSE Lower(element[1])

\* title.includes(query) || meta.includes(query) || excerpt.includes(query)
Matches(article, query) ==
    \/ includes(textContentLower(article.title), query)
    \/ includes(textContentLower(article.meta), query)
    \/ includes(textContentLower(article.excerpt), query)

\* the listener of the 'input' event of #searchInput, for a value typed
OnSearchInput ==
    \E value \in Queries :
        LET query == Lower(value)
        IN /\ browser' =
                [browser EXCEPT
                    !.value = value,
                    !.display =
                        IF Len(query) < 2 THEN @
                        ELSE [k \in DOMAIN @ |->
                                IF Matches(browser.cards[k], query)
                                THEN "block" ELSE "none"]]
           /\ UNCHANGED <<inputVars, dirs, fs, objectVars, pc, idx, runs_left,
                          now, atStart>>

Next ==
    \/ LoadJson
    \/ LoadJsonRaises
    \/ MakeDirs
    \/ IndexSections
    \/ IndexArticles
    \/ CreateCss
    \/ CreateJavascript
    \/ CreateHomepage
    \/ CreateCategoryPage
    \/ CreateSectionPage
    \/ CreateArticlePage
    \/ CreateCategoriesIndex
    \/ CreateArticlesIndex
    \/ CreateVideosPage
    \/ RunAgain

Spec == Init /\ [][Next]_vars

SpecPopular == InitPopular /\ [][Next]_vars

SpecIndex == InitIndex /\ [][Next]_vars

\* Exports of at most one category, section and article beside every videos
\* directory, each run twice.
InitVideos ==
    InitWith({<<>>, <<Category(1, 1)>>}, {<<>>, <<Section(1, 1, 1)>>},
             {<<>>, <<Article(1, 1, At(ArticleTitles, 1), At(ArticleStamps, 1))>>},
             AllVideoDirs, 1)

SpecVideos == InitVideos /\ [][Next]_vars

\* Exports of one or two categories and sections and of up to two articles,
\* the second in no section; the program is run twice and a run can be killed.
InitInterrupt ==
    InitWith({<<Category(1, 1)>>, <<Category(1, 1), Category(2, 2)>>},
             {<<Section(1, 1, 1)>>, <<Section(1, 1, 1), Section(2, 2, 1)>>},
             {<<>>,
              <<Article(1, 1, At(ArticleTitles, 1), At(ArticleStamps, 1))>>,
              <<Article(1, 1, At(ArticleTitles, 1), At(ArticleStamps, 1)),
                Article(2, 0, At(ArticleTitles, 2), At(ArticleStamps, 2))>>},
             VideoDirs, 1)

NextOrInterrupt == Next \/ Interrupt

\* The articles files of at most n articles with the ids 1 and 2 in the
\* sections 1 and 2: articles of one file can have the same id.
SharedIdArticleFiles(n) ==
    {[i \in DOMAIN q |->
        [Article(i, q[i][2], At(ArticleTitles, i), At(ArticleStamps, i))
            EXCEPT !.id = q[i][1]]] :
        q \in SeqsUpTo({1, 2} \X SectionIds, n)}

\* Exports in which categories, sections and articles share ids, each run
\* once, and one of them run twice.
InitSharedIds ==
    \/ InitWith({<<Category(1, 1)>>,
                 <<Category(1, 1), Category(2, 1)>>,
                 <<Category(1, 1), Category(2, 2), Category(3, 1)>>},
                {<<Section(1, 1, 1)>>,
                 <<Section(1, 1, 1), Section(2, 1, 2)>>,
                 <<Section(1, 1, 1), Section(2, 2, 1), Section(3, 1, 1)>>},
                SharedIdArticleFiles(MaxSharedIdArticles), {<<>>}, 0)
    \/ InitWith({<<Category(1, 1), Category(2, 1)>>},
                {<<Section(1, 1, 1), Section(2, 1, 2)>>},
                {as \in SharedIdArticleFiles(MaxSharedIdArticles) :
                    Len(as) = 2 /\ as[1].id = as[2].id},
                {<<>>}, 1)

SpecSharedIds == InitSharedIds /\ [][Next]_vars

SpecInterrupt == InitInterrupt /\ [][NextOrInterrupt]_vars

\* A document of article cards is open in a browser and texts are typed into
\* its search box; the generator is not running.
InitSearch ==
    /\ categories_json = <<>>
    /\ sections_json = <<>>
    /\ articles_json = <<>>
    /\ videos_dir = <<>>
    /\ dirs = {}
    /\ fs = NoFiles
    /\ categories = NotLoaded
    /\ sections = NotLoaded
    /\ articles = NotLoaded
    /\ sections_by_category = EmptyDict
    /\ articles_by_section = EmptyDict
    /\ pc = "load_categories"
    /\ idx = 0
    /\ runs_left = 0
    /\ now = 0
    /\ atStart = [dirs |-> {}, fs |-> NoFiles, completed |-> FALSE]
    /\ browser \in Documents

SpecSearch == InitSearch /\ [][OnSearchInput]_vars

\* ------------------------------------------------------------------- claims
\* The constructor has returned: create_all_pages is running or has ended.
Constructed ==
    pc \in {"create_css", "create_javascript", "create_homepage", "category_pages",
            "section_pages", "article_pages", "create_categories_index",
            "create_articles_index", "create_videos_page", "done"}

Occurrences(list, x) == Cardinality({k \in 1..Len(list) : list[k] = x})

\* The elements of list stand in the order in which they stand in input.
InInputOrder(list, input) ==
    \A k1, k2 \in 1..Len(list) :
        k1 < k2 => \E i1, i2 \in 1..Len(input) :
                        i1 < i2 /\ input[i1] = list[k1] /\ input[i2] = list[k2]

HasSection(section_id) == \E i \in 1..Len(sections) : sections[i].id = section_id

\* C1: once the generator is constructed, every loaded Section s is contained
\* exactly once in sections_by_category[s.category_id], and the sections of
\* that list stand in the order of the sections input.
C1_SectionsByCategory ==
    Constructed =>
        \A i \in 1..Len(sections) :
            LET s == sections[i]
            IN /\ s.category_id \in DOMAIN sections_by_category
               /\ Occurrences(sections_by_category[s.category_id], s) = 1
               /\ InInputOrder(sections_by_category[s.category_id], sections)

\* Two sections of one category are indexed.
C1_Witness ==
    /\ Constructed
    /\ \E c \in DOMAIN sections_by_category : Len(sections_by_category[c]) >= 2

\* C2: once the generator is constructed, every loaded Article whose section_id
\* is the id of a loaded Section is contained exactly once in
\* articles_by_section[a.section_id], in no other list, and the list is in input
\* order; an Article whose section_id is no loaded Section's id is in no list.
C2_ArticlesBySection ==
    Constructed =>
        \A j \in 1..Len(articles) :
            LET a == articles[j]
            IN IF HasSection(a.section_id)
               THEN /\ a.section_id \in DOMAIN articles_by_section
                    /\ Occurrences(articles_by_section[a.section_id], a) = 1
                    /\ InInputOrder(articles_by_section[a.section_id], articles)
                    /\ \A k \in DOMAIN articles_by_section \ {a.section_id} :
                            Occurrences(articles_by_section[k], a) = 0
               ELSE \A k \in DOMAIN articles_by_section :
                            Occurrences(articles_by_section[k], a) = 0

\* Two articles are indexed under a section id that two loaded sections share.
C2_Witness ==
    /\ Constructed
    /\ \E k \in DOMAIN articles_by_section : Len(articles_by_section[k]) >= 2
    /\ \E i1, i2 \in 1..Len(sections) : i1 < i2 /\ sections[i1].id = sections[i2].id

\* The steps of a run in their order; an aborted run is at none of them.
Steps ==
    <<"load_categories", "load_sections", "load_articles", "makedirs",
      "index_sections", "index_articles", "create_css", "create_javascript",
      "create_homepage", "category_pages", "section_pages", "article_pages",
      "create_categories_index", "create_articles_index", "create_videos_page",
      "done">>

StepNo(step) == CHOOSE i \in 1..Len(Steps) : Steps[i] = step

\* The current run has finished the given step.
Past(step) == pc \notin {"aborted", "interrupted"} /\ StepNo(pc) > StepNo(step)

\* How many pages of a loop of create_all_pages the current run has written.
Written(loop, list) ==
    IF pc = loop THEN idx ELSE IF Past(loop) THEN Len(list) ELSE 0

\* C3 as stated: after a second run on unchanged input every file has the
\* content it had after the first run.
C3_ByteIdentical ==
    (pc = "done" /\ atStart.completed) => fs = atStart.fs

\* C3, amended: a second run leaves the same directories and the same files,
\* each with the content the first run gave it, but for the "Generated on"
\* time in the footer of articles.html, which is the time the second run read.
C3_IdenticalButTimestamp ==
    (pc = "done" /\ atStart.completed) =>
        /\ dirs = atStart.dirs
        /\ DOMAIN fs = DOMAIN atStart.fs
        /\ \A path \in DOMAIN fs \ {<<"", "articles.html", 0>>} :
                fs[path] = atStart.fs[path]
        /\ fs[<<"", "articles.html", 0>>] =
                [atStart.fs[<<"", "articles.html", 0>>]
                    EXCEPT !.footer.stamp = <<now>>]

\* A second run has ended at a later time than the first.
C3_Witness ==
    /\ pc = "done"
    /\ atStart.completed
    /\ Len(articles) > 0
    /\ fs[<<"", "articles.html", 0>>] # atStart.fs[<<"", "articles.html", 0>>]

\* C8: a run in which a load fails ends there: it has made no directory,
\* written no file and built no index; and a run that goes on past the loads
\* holds all three files as they are in the export.
C8_LoadFailureAborts ==
    /\ pc = "aborted" =>
        /\ dirs = atStart.dirs
        /\ fs = atStart.fs
        /\ sections_by_category = EmptyDict
        /\ articles_by_section = EmptyDict
    /\ Past("load_articles") =>
        /\ categories = categories_json
        /\ sections = sections_json
        /\ articles = articles_json

\* The load of sections.json or articles.json fails after the categories were
\* loaded.
C8_Witness ==
    /\ pc = "aborted"
    /\ categories # NotLoaded

Referenced(category) ==
    \E i \in 1..Len(sections) : sections[i].category_id = category.id

\* C9: a Category that no loaded Section references has no key in
\* sections_by_category, and its page is written with an empty sidebar and an
\* empty section list.
C9_CategoryWithoutSections ==
    Constructed =>
        \A i \in 1..Len(categories) :
            ~Referenced(categories[i]) =>
                /\ categories[i].id \notin DOMAIN sections_by_category
                /\ i <= Written("category_pages", categories) =>
                    /\ <<"categories", "category", categories[i].id>> \in DOMAIN fs
                    /\ fs[<<"categories", "category", categories[i].id>>].sidebar = <<>>
                    /\ fs[<<"categories", "category", categories[i].id>>].rows = <<>>

\* A run has ended with a category no section references, beside a category
\* with sections.
C9_Witness ==
    /\ pc = "done"
    /\ \E i \in 1..Len(categories) : ~Referenced(categories[i])
    /\ \E i \in 1..Len(categories) : Referenced(categories[i])

\* The loaded sections of a category, in input order.
SectionsOf(category) ==
    LET Belongs(s) == s.category_id = category.id
    IN SelectSeq(sections, Belongs)

ArticleCount(section_id) ==
    Cardinality({j \in 1..Len(articles) : articles[j].section_id = section_id})

\* C10: the page of Category c lists, in its sidebar and in its content, the
\* loaded Sections whose category_id is c.id, in input order, and the count of
\* a Section's row is the number of loaded Articles whose section_id is that
\* Section's id.
C10_CategoryPageLists ==
    \A i \in 1..Written("category_pages", categories) :
        LET listed == SectionsOf(categories[i])
            page == fs[<<"categories", "category", categories[i].id>>]
        IN /\ page.sidebar =
                [k \in 1..Len(listed) |->
                    [href |-> <<"../", "sections", "section", listed[k].id>>,
                     name |-> listed[k].name]]
           /\ page.rows =
                [k \in 1..Len(listed) |->
                    [href |-> <<"../", "sections", "section", listed[k].id>>,
                     name |-> listed[k].name,
                     count |-> ArticleCount(listed[k].id)]]

\* A category page lists two sections, one of them with two articles.
C10_Witness ==
    /\ pc = "done"
    /\ \E i \in 1..Len(categories) :
        LET page == fs[<<"categories", "category", categories[i].id>>]
        IN /\ Len(page.rows) = 2
           /\ \E k \in 1..2 : page.rows[k].count = 2

Dangling(article) == ~HasSection(article.section_id)

\* C6: an Article whose section_id is no loaded Section's id is in no list of
\* articles_by_section and on no section page, neither in the sidebar nor in
\* the content, and the articles index holds exactly one card for it, with
\* "Unknown" for the category and "Unknown" for the section. (Article ids are
\* distinct in these exports: a link names one article.)
C6_DanglingArticle ==
    \A j \in 1..Len(articles) :
        Dangling(articles[j]) =>
            /\ Constructed =>
                \A k \in DOMAIN articles_by_section :
                    Occurrences(articles_by_section[k], articles[j]) = 0
            /\ \A i \in 1..Written("section_pages", sections) :
                LET page == fs[<<"sections", "section", sections[i].id>>]
                    link == <<"../", "articles", "article", articles[j].id>>
                IN /\ \A k \in 1..Len(page.sidebar) : page.sidebar[k].href # link
                   /\ \A k \in 1..Len(page.rows) : page.rows[k].href # link
            /\ Past("create_articles_index") =>
                LET cards == fs[<<"", "articles.html", 0>>].cards
                    link == <<"", "articles", "article", articles[j].id>>
                IN /\ Cardinality({k \in 1..Len(cards) : cards[k].href = link}) = 1
                   /\ \A k \in 1..Len(cards) :
                        cards[k].href = link =>
                            /\ cards[k].title = articles[j].title
                            /\ cards[k].category = "Unknown"
                            /\ cards[k].section = "Unknown"

\* A run has ended on an article without a section and an article of a loaded
\* section.
C6_Witness ==
    /\ pc = "done"
    /\ \E j \in 1..Len(articles) : Dangling(articles[j])
    /\ \E j \in 1..Len(articles) : ~Dangling(articles[j])

\* The name an article page shows for the section: that of the first loaded
\* Section with the article's section_id.
ExpectedSection(article) ==
    IF Dangling(article) THEN "Unknown"
    ELSE LET first == CHOOSE i \in 1..Len(sections) :
                        /\ sections[i].id = article.section_id
                        /\ \A i2 \in 1..(i - 1) : sections[i2].id # article.section_id
         IN sections[first].name

\* The name an article page shows for the category: that of the first loaded
\* Category with the category_id of that section.
ExpectedCategory(article) ==
    IF Dangling(article) THEN "Unknown"
    ELSE LET first == CHOOSE i \in 1..Len(sections) :
                        /\ sections[i].id = article.section_id
                        /\ \A i2 \in 1..(i - 1) : sections[i2].id # article.section_id
             cat_id == sections[first].category_id
         IN IF \A c \in 1..Len(categories) : categories[c].id # cat_id
            THEN "Unknown"
            ELSE LET firstCat == CHOOSE c \in 1..Len(categories) :
                                    /\ categories[c].id = cat_id
                                    /\ \A c2 \in 1..(c - 1) : categories[c2].id # cat_id
                 IN categories[firstCat].name

\* C7: for every article the loop of create_all_pages has come to, the article
\* page is in the output, and its breadcrumb shows the name of the first loaded
\* Section with the article's section_id and the name of the first loaded
\* Category with that section's category_id, each "Unknown" when there is none.
C7_ArticleBreadcrumb ==
    \A i \in 1..Written("article_pages", articles) :
        LET article == articles[i]
            path == <<"articles", "article", article.id>>
        IN /\ path \in DOMAIN fs
           /\ (\A i2 \in (i + 1)..Written("article_pages", articles) :
                    articles[i2].id # article.id) =>
                /\ fs[path].title = article.title
                /\ fs[path].section = ExpectedSection(article)
                /\ fs[path].category = ExpectedCategory(article)

\* A run has ended with an article page whose section is unknown and an
\* article page whose section is known and whose category is unknown.
C7_Witness ==
    /\ pc = "done"
    /\ \E i \in 1..Len(articles) :
        fs[<<"articles", "article", articles[i].id>>].section = "Unknown"
    /\ \E i \in 1..Len(articles) :
        /\ fs[<<"articles", "article", articles[i].id>>].section # "Unknown"
        /\ fs[<<"articles", "article", articles[i].id>>].category = "Unknown"

\* Article p comes before article q in the order of the "Popular Articles":
\* by updated_at descending, and by position in the input when these are equal.
\* (Articles are named by their position in the input, which is their id in
\* these exports.)
MoreRecent(p, q) ==
    \/ StampLess(articles[q].updated_at, articles[p].updated_at)
    \/ articles[q].updated_at = articles[p].updated_at /\ p < q

\* C4: the "Popular Articles" of the homepage are the first min(6, N) of the N
\* loaded articles in the order of updated_at descending, articles with equal
\* updated_at in input order.
C4_PopularArticles ==
    Past("create_homepage") =>
        LET popular == fs[<<"", "index.html", 0>>].popular
            listed == {popular[k].href[4] : k \in 1..Len(popular)}
        IN /\ Len(popular) = IF Len(articles) < 6 THEN Len(articles) ELSE 6
           /\ listed \subseteq 1..Len(articles)
           /\ \A k \in 1..Len(popular) :
                /\ popular[k].href = <<"", "articles", "article", popular[k].href[4]>>
                /\ popular[k].title = articles[popular[k].href[4]].title
           /\ \A k1, k2 \in 1..Len(popular) :
                k1 < k2 => MoreRecent(popular[k1].href[4], popular[k2].href[4])
           /\ \A p \in listed :
                \A q \in (1..Len(articles)) \ listed : MoreRecent(p, q)

\* A homepage is written for more than 6 articles, of which one that is listed
\* and one that is not have the same updated_at.
C4_Witness ==
    /\ pc = "done"
    /\ Len(articles) > 6
    /\ LET popular == fs[<<"", "index.html", 0>>].popular
           listed == {popular[k].href[4] : k \in 1..Len(popular)}
       IN \E p \in listed :
            \E q \in (1..Len(articles)) \ listed :
                articles[p].updated_at = articles[q].updated_at

\* C5: the articles index holds exactly one card for every loaded article,
\* whether its section_id resolves or not, and the cards are in the order of
\* their titles ascending, compared by code point.
C5_ArticlesIndex ==
    Past("create_articles_index") =>
        LET cards == fs[<<"", "articles.html", 0>>].cards
        IN /\ Len(cards) = Len(articles)
           /\ \A j \in 1..Len(articles) :
                \E k \in 1..Len(cards) :
                    /\ cards[k].href = <<"", "articles", "article", articles[j].id>>
                    /\ cards[k].title = articles[j].title
                    /\ \A k2 \in 1..Len(cards) :
                        cards[k2].href = cards[k].href => k2 = k
           /\ \A k \in 1..(Len(cards) - 1) :
                ~StrLess(cards[k + 1].title, cards[k].title)

\* An index is written for the titles "a" and "B", in this order in the input,
\* one of them of an article without a section.
C5_Witness ==
    /\ pc = "done"
    /\ \E j1, j2 \in 1..Len(articles) :
        /\ j1 < j2
        /\ articles[j1].title = <<97>>
        /\ articles[j2].title = <<66>>
        /\ Dangling(articles[j1])
        /\ ~Dangling(articles[j2])

\* C11: a run that ends normally leaves exactly index.html, categories.html,
\* articles.html, videos.html, css/style.css, js/main.js and, for every loaded
\* Category, Section and Article, the file of its kind named by its id.
C11_OutputTree ==
    pc = "done" =>
        DOMAIN fs =
            {<<"", "index.html", 0>>, <<"", "categories.html", 0>>,
             <<"", "articles.html", 0>>, <<"", "videos.html", 0>>,
             <<"css", "style.css", 0>>, <<"js", "main.js", 0>>}
            \cup {<<"categories", "category", categories[i].id>> : i \in 1..Len(categories)}
            \cup {<<"sections", "section", sections[i].id>> : i \in 1..Len(sections)}
            \cup {<<"articles", "article", articles[i].id>> : i \in 1..Len(articles)}

\* The first run on an empty output root has ended, with categories, sections
\* and articles loaded.
C11_Witness ==
    /\ pc = "done"
    /\ atStart.fs = NoFiles
    /\ Len(categories) > 0
    /\ Len(sections) > 0
    /\ Len(articles) > 0

\* The references a written file makes to the stylesheet, the script, the nav
\* targets and the category, section and article pages.
References(path) ==
    LET page == fs[path]
        Links(list) == {list[k].href : k \in 1..Len(list)}
        shell == {page.header.stylesheet} \cup Range(page.header.nav)
                    \cup Range(page.footer.script)
    IN CASE path[1] \in {"css", "js"} -> {}
         [] path = <<"", "index.html", 0>> ->
                shell \cup Links(page.topics) \cup Links(page.popular)
         [] path = <<"", "categories.html", 0>> -> shell \cup Links(page.topics)
         [] path = <<"", "articles.html", 0>> -> shell \cup Links(page.cards)
         [] path = <<"", "videos.html", 0>> -> shell
         [] path[1] \in {"categories", "sections"} ->
                shell \cup Links(page.sidebar) \cup Links(page.rows)
         [] OTHER -> shell \cup Links(page.sidebar)

\* C12: when a run has ended, every reference of a page at the root has no
\* parent-directory prefix, every reference of a category, section or article
\* page has the prefix "../" once, and every reference names a file of the
\* output.
C12_PathRelativity ==
    pc = "done" =>
        \A path \in DOMAIN fs :
            \A ref \in References(path) :
                /\ ref[1] = IF path[1] = "" THEN "" ELSE "../"
                /\ <<ref[2], ref[3], ref[4]>> \in DOMAIN fs

\* A run has ended with a category page, a section page and an article page
\* that link to other pages.
C12_Witness ==
    /\ pc = "done"
    /\ \E path \in DOMAIN fs : path[1] = "categories" /\ Len(fs[path].rows) > 0
    /\ \E path \in DOMAIN fs : path[1] = "sections" /\ Len(fs[path].rows) > 0
    /\ \E path \in DOMAIN fs : path[1] = "articles" /\ Len(fs[path].sidebar) = 3

\* A card is shown unless its style.display is 'none'.
Shown(display) == {k \in DOMAIN display : display[k] # "none"}

\* The text has the query as a substring.
Contains(text, query) ==
    \E before, after \in 0..Len(text) :
        /\ before + Len(query) + after = Len(text)
        /\ \A i \in 1..Len(query) : text[before + i] = query[i]

VideoNames == IF videos_dir = <<>> THEN {} ELSE videos_dir[1]

\* The names that end with the four characters ".mp4".
Mp4Names ==
    {f \in VideoNames :
        /\ Len(f) >= 4
        /\ <<f[Len(f) - 3], f[Len(f) - 2], f[Len(f) - 1], f[Len(f)]>> = <<46, 109, 112, 52>>}

\* C14 as stated: when a run has ended, videos.html has one card for every
\* file of the videos directory.
C14_OneCardPerFile ==
    pc = "done" =>
        /\ <<"", "videos.html", 0>> \in DOMAIN fs
        /\ LET cards == fs[<<"", "videos.html", 0>>].cards
           IN /\ Len(cards) = Cardinality(VideoNames)
              /\ \A f \in VideoNames : \E k \in DOMAIN cards : cards[k].filename = f

\* C14: when a run has ended, videos.html is written and is given by the videos
\* directory alone: its header and footer are fixed, and its cards are, in
\* ascending order of file name, one for every name of the directory that ends
\* with ".mp4" (none when the directory is absent), each with the value of the
\* lookup for its file name, or the empty description when it has none.
C14_VideosPage ==
    pc = "done" =>
        /\ <<"", "videos.html", 0>> \in DOMAIN fs
        /\ LET page == fs[<<"", "videos.html", 0>>]
               cards == page.cards
           IN /\ page.header.title = "Video Tutorials"
              /\ page.header.stylesheet = <<"", "css", "style.css", 0>>
              /\ page.footer.script = <<(<<"", "js", "main.js", 0>>)>>
              /\ Len(cards) = Cardinality(Mp4Names)
              /\ \A f \in Mp4Names : \E k \in DOMAIN cards : cards[k].filename = f
              /\ \A j, k \in DOMAIN cards : j < k => StrLess(cards[j].filename, cards[k].filename)
              /\ \A k \in DOMAIN cards :
                    cards[k].description =
                        IF \E i \in DOMAIN VideoDescriptionItems :
                                VideoDescriptionItems[i][1] = cards[k].filename
                        THEN LET i == CHOOSE i \in DOMAIN VideoDescriptionItems :
                                        VideoDescriptionItems[i][1] = cards[k].filename
                             IN VideoDescriptionItems[i][2]
                        ELSE ""

\* A run has ended on a videos directory that holds a file of the lookup, an
\* .mp4 file that is not in it and files that do not end with ".mp4", beside a
\* category, a section and an article.
C14_Witness ==
    /\ pc = "done"
    /\ Len(categories) = 1 /\ Len(sections) = 1 /\ Len(articles) = 1
    /\ videos_dir # <<>>
    /\ Cardinality(videos_dir[1]) = 6
    /\ Len(fs[<<"", "videos.html", 0>>].cards) = 4
    /\ \E k \in 1..4 : fs[<<"", "videos.html", 0>>].cards[k].description = ""
    /\ \E k \in 1..4 : fs[<<"", "videos.html", 0>>].cards[k].description # ""

\* The last record of a list with the given id.
LastWith(list, id) ==
    list[CHOOSE i \in DOMAIN list :
            list[i].id = id /\ \A j \in DOMAIN list : list[j].id = id => j <= i]

\* The tree that one run of the loaded export that is not interrupted leaves
\* on an empty output root when it reads the clock at the given time.
CleanRunTree(time) ==
    LET paths ==
            {CssPath, JsPath, IndexPath, CategoriesIndexPath, ArticlesIndexPath,
             VideosPath}
            \cup {CategoryPath(categories[i].id) : i \in DOMAIN categories}
            \cup {SectionPath(sections[i].id) : i \in DOMAIN sections}
            \cup {ArticlePath(articles[i].id) : i \in DOMAIN articles}
    IN [path \in paths |->
            CASE path = CssPath -> [text |-> "css_content"]
              [] path = JsPath -> [text |-> "js_content"]
              [] path = IndexPath -> HomepageHtml
              [] path = CategoriesIndexPath -> CategoriesIndexHtml
              [] path = ArticlesIndexPath -> ArticlesIndexHtml(time)
              [] path = VideosPath -> VideosHtml
              [] path[1] = "categories" -> CategoryPageHtml(LastWith(categories, path[3]))
              [] path[1] = "sections" -> SectionPageHtml(LastWith(sections, path[3]))
              [] OTHER -> ArticlePageHtml(LastWith(articles, path[3]))]

\* The run before the current one was killed after it had written a file.
AfterInterruptedRun == ~atStart.completed /\ atStart.fs # NoFiles

\* C15 as stated: a run that follows an interrupted run leaves the tree of a
\* run on an empty output root that is not interrupted, whenever that run is
\* made.
C15_TreeOfAnyCleanRun ==
    (pc = "done" /\ AfterInterruptedRun) =>
        \A time \in 0..MaxClock : fs = CleanRunTree(time)

\* C15, amended: every run that ends normally, on an empty output root or
\* after an interrupted run, leaves the six directories and the tree of a run
\* on an empty output root that is not interrupted and reads the same clock
\* second: the same files with the same content.
C15_RecoveredTree ==
    pc = "done" => fs = CleanRunTree(now) /\ dirs = OutputDirs

\* A run has ended that found a tree without videos.html and with a partly
\* written file of an export with two categories, two sections and two
\* articles.
C15_Witness ==
    /\ pc = "done"
    /\ AfterInterruptedRun
    /\ VideosPath \notin DOMAIN atStart.fs
    /\ \E path \in DOMAIN atStart.fs : atStart.fs[path] = PartlyWritten
    /\ Len(categories) = 2 /\ Len(sections) = 2 /\ Len(articles) = 2

\* Every loaded section is in the list of its category and every loaded
\* article of a loaded section is in the list of that section.
IndexesComplete ==
    /\ \A i \in 1..Len(sections) :
        /\ sections[i].category_id \in DOMAIN sections_by_category
        /\ sections[i] \in Range(sections_by_category[sections[i].category_id])
    /\ \A j \in 1..Len(articles) :
        HasSection(articles[j].section_id) =>
            /\ articles[j].section_id \in DOMAIN articles_by_section
            /\ articles[j] \in Range(articles_by_section[articles[j].section_id])

\* C16: a run loads, then indexes, then writes the assets, then the pages:
\* while an index has an entry the three files are loaded, a run that has
\* changed the output tree has both indexes complete, and while the tree holds
\* an HTML page it holds css/style.css and js/main.js.
C16_StepOrder ==
    /\ (sections_by_category # EmptyDict \/ articles_by_section # EmptyDict) =>
            /\ Past("load_articles")
            /\ categories = categories_json
            /\ sections = sections_json
            /\ articles = articles_json
    /\ fs # atStart.fs => Past("index_articles") /\ IndexesComplete
    /\ (\E path \in DOMAIN fs : path[1] \notin {"css", "js"}) =>
            /\ <<"css", "style.css", 0>> \in DOMAIN fs
            /\ <<"js", "main.js", 0>> \in DOMAIN fs

\* The first run on an export with an article of a loaded section has written
\* index.html and not yet a category page.
C16_Witness ==
    /\ atStart.fs = NoFiles
    /\ pc = "category_pages"
    /\ idx = 0
    /\ <<"", "index.html", 0>> \in DOMAIN fs
    /\ \E j \in 1..Len(articles) : HasSection(articles[j].section_id)

\* C17: the topic cards of categories.html are those of index.html: one card
\* for every section of the input, in input order, that links to the page of
\* the section and has its name, and the two cards of a section have the same
\* link, icon, name, description and count label.
C17_TopicGridsAgree ==
    <<"", "categories.html", 0>> \in DOMAIN fs =>
        LET home == fs[<<"", "index.html", 0>>].topics
            browse == fs[<<"", "categories.html", 0>>].topics
        IN /\ Len(browse) = Len(sections_json)
           /\ Len(home) = Len(sections_json)
           /\ \A i \in 1..Len(sections_json) :
                /\ browse[i].href = <<"", "sections", "section", sections_json[i].id>>
                /\ browse[i].name = sections_json[i].name
                /\ browse[i].href = home[i].href
                /\ browse[i].icon = home[i].icon
                /\ browse[i].name = home[i].name
                /\ browse[i].description = home[i].description
                /\ browse[i].count = home[i].count
                /\ browse[i].label = home[i].label

\* categories.html is written with the cards of two sections, one with one
\* article and an icon of its own, the other with no article and the default
\* icon.
C17_Witness ==
    /\ <<"", "categories.html", 0>> \in DOMAIN fs
    /\ LET browse == fs[<<"", "categories.html", 0>>].topics
       IN /\ Len(browse) = 2
          /\ \E i \in 1..2 : browse[i].count = 1 /\ browse[i].icon # DefaultIcon
          /\ \E i \in 1..2 : browse[i].count = 0 /\ browse[i].icon = DefaultIcon

\* C18: the search input is on pages at the output root only: no page written
\* into categories/, sections/ or articles/ has it.
C18_SearchOnlyOnRootPages ==
    \A path \in DOMAIN fs :
        path[1] \in {"categories", "sections", "articles"} => ~fs[path].header.search

\* C19: no step of create_all_pages changes categories, sections, articles,
\* sections_by_category or articles_by_section of the constructed generator.
C19_PagesReadOnly ==
    [][(Constructed /\ Constructed') =>
        /\ categories' = categories
        /\ sections' = sections
        /\ articles' = articles
        /\ sections_by_category' = sections_by_category
        /\ articles_by_section' = articles_by_section]_vars

\* create_all_pages has ended on articles that are loaded in another order
\* than the most recent first, the order the homepage sorts them into.
C19_Witness ==
    /\ pc = "done"
    /\ Len(articles) >= 2
    /\ articles = articles_json
    /\ \E i, j \in 1..Len(articles) :
        i < j /\ StampLess(articles[i].updated_at, articles[j].updated_at)
    /\ Len(fs[<<"", "index.html", 0>>].popular) >= 2

\* The sum of the lengths of the lists of a mapping over the given keys.
RECURSIVE SumOfLengths(_, _)
SumOfLengths(mapping, keys) ==
    IF keys = {} THEN 0
    ELSE LET key == CHOOSE k \in keys : TRUE
         IN Len(mapping[key]) + SumOfLengths(mapping, keys \ {key})

\* C20: when a run has ended, the count on the topic card of a section on
\* index.html and on categories.html, the count of every row of a category page
\* that links to the section and the number of articles on the page of the
\* section are all the length of articles_by_section of its id; and these
\* lengths, added over the section ids, are the number of loaded articles the
\* section_id of which is the id of a loaded section.
C20_ArticleCounts ==
    pc = "done" =>
        /\ \A i \in 1..Len(sections) :
            LET id == sections[i].id
                count == Len(articles_by_section[id])
            IN /\ fs[<<"", "index.html", 0>>].topics[i].count = count
               /\ fs[<<"", "categories.html", 0>>].topics[i].count = count
               /\ Len(fs[<<"sections", "section", id>>].rows) = count
               /\ Len(fs[<<"sections", "section", id>>].sidebar) = count
               /\ \A path \in DOMAIN fs :
                    path[1] = "categories" =>
                        /\ \A k \in 1..Len(fs[path].rows) :
                            fs[path].rows[k].href = <<"../", "sections", "section", id>>
                                => fs[path].rows[k].count = count
                        /\ path[3] = sections[i].category_id =>
                            \E k \in 1..Len(fs[path].rows) :
                                fs[path].rows[k].href = <<"../", "sections", "section", id>>
        /\ {sections[i].id : i \in 1..Len(sections)} = DOMAIN articles_by_section
        /\ SumOfLengths(articles_by_section, DOMAIN articles_by_section)
                = Cardinality({j \in 1..Len(articles) : HasSection(articles[j].section_id)})

\* A run has ended on two sections of loaded categories and two articles, both
\* of the same section.
C20_Witness ==
    /\ pc = "done"
    /\ Len(sections) = 2
    /\ sections[1].id # sections[2].id
    /\ \A i \in 1..2 : <<"categories", "category", sections[i].category_id>> \in DOMAIN fs
    /\ Len(articles) = 2
    /\ articles[1].section_id = articles[2].section_id
    /\ Len(fs[<<"sections", "section", articles[1].section_id>>].rows) = 2

\* The category page at the path has a row for the section.
ListedOn(path, section) ==
    \E k \in 1..Len(fs[path].rows) :
        /\ fs[path].rows[k].href = <<"../", "sections", "section", section.id>>
        /\ fs[path].rows[k].name = section.name

\* C21: when a run has ended, every loaded section is in sections_by_category
\* under its category_id and has its section page and its topic card, also
\* when no loaded category has that id; a category page that lists a section
\* is the page of the category with the id that is the section's category_id,
\* so a section of no loaded category is listed on no category page.
C21_SectionOfUnknownCategory ==
    pc = "done" =>
        \A i \in 1..Len(sections) :
            LET s == sections[i]
                pages == {path \in DOMAIN fs : path[1] = "categories"}
                known == \E c \in 1..Len(categories) : categories[c].id = s.category_id
            IN /\ s.category_id \in DOMAIN sections_by_category
               /\ s \in Range(sections_by_category[s.category_id])
               /\ <<"sections", "section", s.id>> \in DOMAIN fs
               /\ fs[<<"", "index.html", 0>>].topics[i].name = s.name
               /\ fs[<<"", "index.html", 0>>].topics[i].href
                    = <<"", "sections", "section", s.id>>
               /\ fs[<<"", "categories.html", 0>>].topics[i].name = s.name
               /\ {path \in pages : ListedOn(path, s)} =
                    IF known THEN {<<"categories", "category", s.category_id>>} ELSE {}

\* A run has ended on a section of a loaded category and a section of no
\* loaded category.
C21_Witness ==
    /\ pc = "done"
    /\ Len(categories) > 0
    /\ \E i, j \in 1..Len(sections) :
        /\ \E c \in 1..Len(categories) : categories[c].id = sections[i].category_id
        /\ \A c \in 1..Len(categories) : categories[c].id # sections[j].category_id
        /\ sections[j].category_id \in DOMAIN sections_by_category
        /\ <<"sections", "section", sections[j].id>> \in DOMAIN fs

\* The position of the last record of a list that has the id of the record at
\* the given position.
LastOfId(list, i) ==
    CHOOSE j \in 1..Len(list) :
        list[j].id = list[i].id /\ \A k \in 1..Len(list) : list[k].id = list[i].id => k <= j

DistinctIds(list) == {list[i].id : i \in 1..Len(list)}

FilesIn(dir) == {path \in DOMAIN fs : path[1] = dir}

\* C22: every record of a loop of create_all_pages is written to the path of
\* its id; when the run has ended the file of an id is the page of the last
\* record of the input with that id, and categories/, sections/ and articles/
\* hold as many files as their records have distinct ids.
C22_SharedIdLastWins ==
    /\ (pc = "category_pages" /\ idx >= 1) =>
            fs[<<"categories", "category", categories[idx].id>>].name
                = categories[idx].name
    /\ (pc = "section_pages" /\ idx >= 1) =>
            fs[<<"sections", "section", sections[idx].id>>].name = sections[idx].name
    /\ (pc = "article_pages" /\ idx >= 1) =>
            fs[<<"articles", "article", articles[idx].id>>].title = articles[idx].title
    /\ pc = "done" =>
        /\ \A i \in 1..Len(categories) :
            fs[<<"categories", "category", categories[i].id>>].name
                = categories[LastOfId(categories, i)].name
        /\ \A i \in 1..Len(sections) :
            fs[<<"sections", "section", sections[i].id>>].name
                = sections[LastOfId(sections, i)].name
        /\ \A i \in 1..Len(articles) :
            LET last == articles[LastOfId(articles, i)]
                page == fs[<<"articles", "article", articles[i].id>>]
            IN /\ page.title = last.title
               /\ page.updated = last.updated_at[1]
               /\ page.body = last.body
        /\ Cardinality(FilesIn("categories")) = Cardinality(DistinctIds(categories))
        /\ Cardinality(FilesIn("sections")) = Cardinality(DistinctIds(sections))
        /\ Cardinality(FilesIn("articles")) = Cardinality(DistinctIds(articles))

\* A run has ended on two categories with one id, two sections with one id
\* and three articles of which the first and the last have one id.
C22_Witness ==
    /\ pc = "done"
    /\ Len(categories) = 2 /\ categories[1].id = categories[2].id
    /\ Len(sections) = 2 /\ sections[1].id = sections[2].id
    /\ Len(articles) = 3
    /\ articles[1].id = articles[3].id
    /\ articles[2].id # articles[1].id
    /\ Cardinality(FilesIn("articles")) = 2
    /\ Cardinality(FilesIn("categories")) = 1
    /\ Cardinality(FilesIn("sections")) = 1

====
